---- MODULE Spec2Model ----
(***************************************************************************)
(* answers-only: an interactive session (main) that hands each question to *)
(* processQuestion, the retry loop over Gemini (Backend A), Groq           *)
(* (Backend B) and the Gemini equivalence judge (compareResponses).        *)
(*                                                                         *)
(* A Go string is a sequence of one-character strings; a fixed piece of a  *)
(* format string is one element of the sequence.  A Go pointer or error is *)
(* a sequence of length 0 (nil) or 1 (the value).                          *)
(***************************************************************************)
EXTENDS Integers, Sequences, FiniteSets, TLC

(* ------------------------------ bounds --------------------------------- *)
\* largest value of the --max-retries flag that is explored
MaxBudget == 3
\* most lines the user types in one turn before end-of-input
MaxLines == 2

(* ------------------------------ strings -------------------------------- *)
Nil == <<>>
Some(v) == <<v>>

\* unicode.IsSpace on the characters the model uses
IsSpace(c) == c \in {" ", "\t", "\n", "\r"}

UpperAlpha == <<"A","B","C","D","E","F","G","H","I","J","K","L","M",
                "N","O","P","Q","R","S","T","U","V","W","X","Y","Z">>
LowerAlpha == <<"a","b","c","d","e","f","g","h","i","j","k","l","m",
                "n","o","p","q","r","s","t","u","v","w","x","y","z">>

LowerChar(c) ==
    IF \E i \in 1..26 : UpperAlpha[i] = c
    THEN LowerAlpha[CHOOSE i \in 1..26 : UpperAlpha[i] = c]
    ELSE c

\* strings.ToLower
ToLower(s) == [i \in 1..Len(s) |-> LowerChar(s[i])]

RECURSIVE TrimLeft(_)
TrimLeft(s) ==
    IF s = <<>> THEN s
    ELSE IF IsSpace(Head(s)) THEN TrimLeft(Tail(s)) ELSE s

RECURSIVE TrimRight(_)
TrimRight(s) ==
    IF s = <<>> THEN s
    ELSE IF IsSpace(s[Len(s)]) THEN TrimRight(SubSeq(s, 1, Len(s) - 1)) ELSE s

\* strings.TrimSpace
TrimSpace(s) == TrimRight(TrimLeft(s))

HasPrefix(s, p) == Len(s) >= Len(p) /\ SubSeq(s, 1, Len(p)) = p

\* strings.ReplaceAll for a non-empty old: left to right, non-overlapping
RECURSIVE ReplaceAll(_, _, _)
ReplaceAll(s, old, new) ==
    IF s = <<>> THEN s
    ELSE IF HasPrefix(s, old)
         THEN new \o ReplaceAll(SubSeq(s, Len(old) + 1, Len(s)), old, new)
         ELSE <<Head(s)>> \o ReplaceAll(Tail(s), old, new)

Digits == <<"0","1","2","3","4","5","6","7","8","9">>

RECURSIVE ItoaNat(_)
ItoaNat(n) == IF n < 10 THEN <<Digits[n + 1]>> ELSE ItoaNat(n \div 10) \o <<Digits[(n % 10) + 1]>>

\* the %d verb of fmt
Itoa(n) == IF n < 0 THEN <<"-">> \o ItoaNat(0 - n) ELSE ItoaNat(n)

\* the %v verb of fmt applied to an error value
ErrText(e) == IF e = Nil THEN <<"<nil>">> ELSE e[1]

(* ----------------------- remote services (inputs) ---------------------- *)
\* answer texts a backend may generate
TextB == <<"B">>
TextOption == <<"1"," ","O","p","t","i","o","n"," ","B"," ","S","u","m","m","a","r","y">>
AnswerTexts == {TextB, TextOption}

\* texts the judge model may generate
JudgeTexts ==
    { <<"t","r","u","e">>, <<" ","T","r","u","e","\n">>, <<"T","r","u","e",".">>,
      <<"n","o">> }

\* what a Gemini endpoint may hand back to the genai client: a failure to
\* create the client, a failed GenerateContent (which is also how a cancelled
\* ctx shows), or a response holding a list of candidates, each a list of
\* text parts
GeminiReplies(texts) ==
    { [newClientErr |-> Some(<<"no credentials">>), genErr |-> Nil, Candidates |-> <<>>],
      [newClientErr |-> Nil, genErr |-> Some(<<"rpc error">>), Candidates |-> <<>>],
      [newClientErr |-> Nil, genErr |-> Nil, Candidates |-> <<>>],
      [newClientErr |-> Nil, genErr |-> Nil, Candidates |-> << <<>> >>] }
    \cup { [newClientErr |-> Nil, genErr |-> Nil, Candidates |-> << <<t>> >>] : t \in texts }

\* what the Groq endpoint may hand back to http.Client.Do and the decoder
GroqReplies ==
    { [doErr |-> Some(<<"dial tcp: timeout">>), StatusCode |-> 0, decodeErr |-> Nil, Choices |-> <<>>],
      [doErr |-> Nil, StatusCode |-> 429, decodeErr |-> Nil, Choices |-> <<>>],
      [doErr |-> Nil, StatusCode |-> 200, decodeErr |-> Some(<<"unexpected EOF">>), Choices |-> <<>>],
      [doErr |-> Nil, StatusCode |-> 200, decodeErr |-> Nil, Choices |-> <<>>] }
    \cup { [doErr |-> Nil, StatusCode |-> 200, decodeErr |-> Nil, Choices |-> <<t>>] : t \in AnswerTexts }

(* --------------------------- pure functions ---------------------------- *)
PromptTemplate == "If this is a multiple choice question, please: ... Here's the question:\n"

\* the enhanced prompt both backends are sent
EnhancedPrompt(question) == <<PromptTemplate>> \o question

ComparisonPrompt(resp1, resp2) ==
    <<"Compare these two responses ... Response 1:\n">> \o resp1 \o <<"\n\nResponse 2:\n">> \o resp2

\* resp.Candidates[0].Content.Parts[0] can be indexed
HasFirstText(reply) == Len(reply.Candidates) > 0 /\ Len(reply.Candidates[1]) > 0

FirstText(reply) == reply.Candidates[1][1]

\* getGeminiResponse, given what the endpoint hands back
GetGeminiResponse(reply) ==
    IF reply.newClientErr # Nil
    THEN [panic |-> FALSE, resp |-> Nil,
          err |-> Some(<<"failed to create Gemini client: ">> \o reply.newClientErr[1])]
    ELSE IF reply.genErr # Nil
    THEN [panic |-> FALSE, resp |-> Nil,
          err |-> Some(<<"failed to generate Gemini response: ">> \o reply.genErr[1])]
    ELSE IF ~HasFirstText(reply)
    THEN [panic |-> TRUE, resp |-> Nil, err |-> Nil]
    ELSE [panic |-> FALSE, resp |-> Some([Source |-> "Gemini", Content |-> FirstText(reply)]),
          err |-> Nil]

StatusOK == 200

\* getGroqResponse, given what the endpoint hands back
GetGroqResponse(reply) ==
    IF reply.doErr # Nil
    THEN [resp |-> Nil, err |-> Some(<<"failed to send request: ">> \o reply.doErr[1])]
    ELSE IF reply.StatusCode # StatusOK
    THEN [resp |-> Nil,
          err |-> Some(<<"API request failed with status: ">> \o Itoa(reply.StatusCode))]
    ELSE IF reply.decodeErr # Nil
    THEN [resp |-> Nil, err |-> Some(<<"failed to decode response: ">> \o reply.decodeErr[1])]
    ELSE IF Len(reply.Choices) = 0
    THEN [resp |-> Nil, err |-> Some(<<"no response choices returned">>)]
    ELSE [resp |-> Some([Source |-> "Groq", Content |-> reply.Choices[1]]), err |-> Nil]

\* Verdict without the lowercasing
Verdict_CaseSensitive(text) == TrimSpace(text) = <<"t","r","u","e">>

\* the verdict compareResponses reads off the judge's text
Verdict(text) == ToLower(TrimSpace(text)) = <<"t","r","u","e">>

\* compareResponses, given what the endpoint hands back
CompareResponses(reply) ==
    IF reply.newClientErr # Nil
    THEN [panic |-> FALSE, similar |-> FALSE,
          err |-> Some(<<"failed to create Gemini client for comparison: ">> \o reply.newClientErr[1])]
    ELSE IF reply.genErr # Nil
    THEN [panic |-> FALSE, similar |-> FALSE,
          err |-> Some(<<"failed to compare responses using Gemini: ">> \o reply.genErr[1])]
    ELSE IF ~HasFirstText(reply)
    THEN [panic |-> TRUE, similar |-> FALSE, err |-> Nil]
    ELSE [panic |-> FALSE, similar |-> Verdict(FirstText(reply)), err |-> Nil]

\* formatResponse
FormatResponse(response) ==
    ReplaceAll(ReplaceAll(response, <<"O","p","t","i","o","n">>,
                          <<"\n","O","p","t","i","o","n">>),
               <<"S","u","m","m","a","r","y">>,
               <<"\n","\n","S","u","m","m","a","r","y">>)

ErrorPlaceholder == <<"Error getting response">>

\* the loop condition as a test for inequality
LoopCond_NotEqual(a, max) == a # max

\* the loop condition running one attempt too many
LoopCond_OffByOne(a, max) == a <= max

\* the loop condition giving up one attempt early
LoopCond_StopsEarly(a, max) == a < max - 1

\* the loop condition of processQuestion
LoopCond(a, max) == a < max

\* the test taking one missing response for none
NoResponses_Either(gResp, qResp) == gResp = Nil \/ qResp = Nil

\* the test that picks the error return once the loop is over
NoResponses(gResp, qResp) == gResp = Nil /\ qResp = Nil

\* the error processQuestion returns when it has no response
ExhaustedError(max, gErr, qErr) ==
    Some(<<"failed to get responses after ">> \o Itoa(max)
         \o <<" attempts. Gemini error: ">> \o ErrText(gErr)
         \o <<", Groq error: ">> \o ErrText(qErr))

GeminiSlot(gResp) == IF gResp # Nil THEN FormatResponse(gResp[1].Content) ELSE ErrorPlaceholder

GroqSlot(qResp) == IF qResp # Nil THEN FormatResponse(qResp[1].Content) ELSE ErrorPlaceholder

\* the block with the two slots in the wrong order
DualResponse_Swapped(max, gResp, qResp) ==
    <<"Responses after ">> \o Itoa(max) \o <<" attempts:\n\nGemini Response:\n">>
    \o GroqSlot(qResp) \o <<"\n\nGroq Response:\n">> \o GeminiSlot(gResp)

\* the dual-response block processQuestion returns
DualResponse(max, gResp, qResp) ==
    <<"Responses after ">> \o Itoa(max) \o <<" attempts:\n\nGemini Response:\n">>
    \o GeminiSlot(gResp) \o <<"\n\nGroq Response:\n">> \o GroqSlot(qResp)

(* ------------------------------ inputs --------------------------------- *)
\* complete lines the user may type (each ends with the delimiter)
InputLines ==
    { <<"e","x","i","t","\n">>, <<" ","E","x","i","t"," ","\r","\n">>,
      <<"h","i","\n">>, <<" ","\n">> }

\* what is left in front of the end-of-input marker when it is reached
\* in the middle of a line (no delimiter)
UnterminatedTails == { <<>>, <<"e","x","i","t">>, <<"o","k">> }

\* values of the --max-retries flag
Budgets == (0 - 1)..MaxBudget

Keys == {"", "key"}

NumLines(s) == Cardinality({i \in 1..Len(s) : s[i] = "\n"})

(* ------------------------------- state --------------------------------- *)
VARIABLES
    \* the process
    exited,          \* the process has terminated
    exitCode,        \* its exit code once exited
    \* the interrupt listener goroutine and the shared context
    sigPc,           \* "waiting", "received", "cancelled", "exited"
    ctxCancelled,    \* cancel() has been called on ctx
    \* main
    mainPc,          \* "start", "prompt", "reading", "eof", "processing", "returned", "done"
    env,             \* .env: [loaded, GEMINI_API_KEY, GROQ_API_KEY]
    maxRetriesFlag,  \* --max-retries
    config,          \* Config
    questionBuilder, \* questionBuilder
    line,            \* line of the current read
    question,        \* question
    response,        \* response, as returned by processQuestion
    mainErr,         \* err, as returned by processQuestion
    lastOutput,      \* what main wrote last: [kind, text]
    \* processQuestion
    pqPc,            \* "idle", "loop", "gemini", "groq", "compare"
    attempt,
    geminiResp,
    groqResp,
    err,
    lastGeminiErr,
    lastGroqErr,
    similar,
    inflight,        \* the remote request in flight, if any
    lastReply,       \* what the remote call that returned last was handed back
    \* history of the current call of processQuestion
    hist

mainVars == <<mainPc, env, maxRetriesFlag, config, questionBuilder, line, question,
              response, mainErr, lastOutput>>
pqVars == <<pqPc, attempt, geminiResp, groqResp, err, lastGeminiErr, lastGroqErr,
            similar, inflight, lastReply, hist>>
sigVars == <<sigPc, ctxCancelled>>
procVars == <<exited, exitCode>>
vars == <<procVars, sigVars, mainVars, pqVars>>

ZeroConfig == [GeminiKey |-> "", GroqKey |-> "", MaxRetries |-> 0]

\* nothing has been called yet; *At is the attempt that last assigned the
\* variable, -1 when none has
ZeroHist ==
    [gemCalls |-> 0, groqCalls |-> 0, cmpCalls |-> 0,
     gemOk |-> 0, groqOk |-> 0, agreed |-> FALSE, bothAt |-> 0 - 1,
     geminiRespAt |-> 0 - 1, groqRespAt |-> 0 - 1,
     lastGeminiErrAt |-> 0 - 1, lastGroqErrAt |-> 0 - 1,
     outcome |-> "none"]

Init ==
    /\ exited = FALSE
    /\ exitCode = 0
    /\ sigPc = "waiting"
    /\ ctxCancelled = FALSE
    /\ mainPc = "start"
    /\ env \in [loaded : BOOLEAN, GEMINI_API_KEY : Keys, GROQ_API_KEY : Keys]
    /\ maxRetriesFlag \in Budgets
    /\ config = ZeroConfig
    /\ questionBuilder = <<>>
    /\ line = <<>>
    /\ question = <<>>
    /\ response = <<>>
    /\ mainErr = Nil
    /\ lastOutput = [kind |-> "none", text |-> <<>>]
    /\ pqPc = "idle"
    /\ attempt = 0
    /\ geminiResp = Nil
    /\ groqResp = Nil
    /\ err = Nil
    /\ lastGeminiErr = Nil
    /\ lastGroqErr = Nil
    /\ similar = FALSE
    /\ inflight = Nil
    /\ lastReply = Nil
    /\ hist = ZeroHist

(* ------------------------ the interrupt listener ----------------------- *)
\* <-sigChan returns and the shutdown notice is printed
SignalReceived ==
    /\ ~exited
    /\ sigPc = "waiting"
    /\ sigPc' = "received"
    /\ UNCHANGED <<ctxCancelled, procVars, mainVars, pqVars>>

\* cancel()
SignalCancel ==
    /\ ~exited
    /\ sigPc = "received"
    /\ sigPc' = "cancelled"
    /\ ctxCancelled' = TRUE
    /\ UNCHANGED <<procVars, mainVars, pqVars>>

\* os.Exit(0)
SignalExit ==
    /\ ~exited
    /\ sigPc = "cancelled"
    /\ sigPc' = "exited"
    /\ exited' = TRUE
    /\ exitCode' = 0
    /\ UNCHANGED <<ctxCancelled, mainVars, pqVars>>

(* -------------------------------- main --------------------------------- *)
\* the frame of processQuestion before its first statement, and after it
\* has been left
ZeroFrame ==
    /\ attempt' = 0
    /\ geminiResp' = Nil
    /\ groqResp' = Nil
    /\ err' = Nil
    /\ lastGeminiErr' = Nil
    /\ lastGroqErr' = Nil
    /\ similar' = FALSE
    /\ inflight' = Nil
    /\ lastReply' = Nil
    /\ hist' = ZeroHist

\* godotenv.Load fails: log.Fatal
StartupNoEnv ==
    /\ ~exited
    /\ mainPc = "start"
    /\ ~env.loaded
    /\ exited' = TRUE
    /\ exitCode' = 1
    /\ lastOutput' = [kind |-> "fatal", text |-> <<"Error loading .env file">>]
    /\ UNCHANGED <<sigVars, pqVars, mainPc, env, maxRetriesFlag, config, questionBuilder,
                   line, question, response, mainErr>>

\* a key is missing: log.Fatal
StartupNoKeys ==
    /\ ~exited
    /\ mainPc = "start"
    /\ env.loaded
    /\ (env.GEMINI_API_KEY = "" \/ env.GROQ_API_KEY = "")
    /\ exited' = TRUE
    /\ exitCode' = 1
    /\ lastOutput' = [kind |-> "fatal",
                      text |-> <<"Please set GEMINI_API_KEY and GROQ_API_KEY in .env file">>]
    /\ UNCHANGED <<sigVars, pqVars, mainPc, env, maxRetriesFlag, config, questionBuilder,
                   line, question, response, mainErr>>

\* the configuration is built and the banner printed
Startup ==
    /\ ~exited
    /\ mainPc = "start"
    /\ env.loaded
    /\ env.GEMINI_API_KEY # ""
    /\ env.GROQ_API_KEY # ""
    /\ config' = [GeminiKey |-> env.GEMINI_API_KEY, GroqKey |-> env.GROQ_API_KEY,
                  MaxRetries |-> maxRetriesFlag]
    /\ mainPc' = "prompt"
    /\ lastOutput' = [kind |-> "banner", text |-> <<>>]
    /\ UNCHANGED <<procVars, sigVars, pqVars, env, maxRetriesFlag, questionBuilder,
                   line, question, response, mainErr>>

\* the head of the outer loop: the prompt and a fresh questionBuilder
Prompt ==
    /\ ~exited
    /\ mainPc = "prompt"
    /\ mainPc' = "reading"
    /\ questionBuilder' = <<>>
    /\ line' = <<>>
    /\ lastOutput' = [kind |-> "prompt", text |-> <<"\nEnter your question:\n">>]
    /\ UNCHANGED <<procVars, sigVars, pqVars, env, maxRetriesFlag, config, question,
                   response, mainErr>>

\* the exit command test without the trimming
IsExitCommand_Untrimmed(l) == ToLower(l) = <<"e","x","i","t">>

\* the exit command test of the inner loop
IsExitCommand(l) == TrimSpace(ToLower(l)) = <<"e","x","i","t">>

\* reader.ReadString returns a complete line that is the exit command:
\* main returns, its deferred cancel() runs, the process ends with code 0
ReadExit ==
    /\ ~exited
    /\ mainPc = "reading"
    /\ \E l \in InputLines :
          /\ IsExitCommand(l)
          /\ line' = l
    /\ mainPc' = "done"
    /\ lastOutput' = [kind |-> "goodbye", text |-> <<"Goodbye!">>]
    /\ ctxCancelled' = TRUE
    /\ exited' = TRUE
    /\ exitCode' = 0
    /\ UNCHANGED <<sigPc, pqVars, env, maxRetriesFlag, config, questionBuilder, question,
                   response, mainErr>>

\* reader.ReadString returns a complete line that is appended
ReadLine ==
    /\ ~exited
    /\ mainPc = "reading"
    /\ NumLines(questionBuilder) < MaxLines
    /\ \E l \in InputLines :
          /\ ~IsExitCommand(l)
          /\ line' = l
          /\ questionBuilder' = questionBuilder \o l
    /\ UNCHANGED <<procVars, sigVars, pqVars, mainPc, env, maxRetriesFlag, config, question,
                   response, mainErr, lastOutput>>

\* reader.ReadString fails with an error other than EOF: logged, read again
ReadError ==
    /\ ~exited
    /\ mainPc = "reading"
    /\ line' = <<>>
    /\ lastOutput' = [kind |-> "log", text |-> <<"Error reading input: ">>]
    /\ UNCHANGED <<procVars, sigVars, pqVars, mainPc, env, maxRetriesFlag, config,
                   questionBuilder, question, response, mainErr>>

\* reader.ReadString returns EOF, with whatever precedes it on an
\* unterminated line: break
ReadEOF ==
    /\ ~exited
    /\ mainPc = "reading"
    /\ \E tail \in UnterminatedTails : line' = tail
    /\ mainPc' = "eof"
    /\ UNCHANGED <<procVars, sigVars, pqVars, env, maxRetriesFlag, config, questionBuilder,
                   question, response, mainErr, lastOutput>>

\* the question without the trimming
QuestionOf_Untrimmed(b) == b

\* the question main makes of what questionBuilder holds
QuestionOf(b) == TrimSpace(b)

\* after the inner loop the accumulated input is blank: continue
QuestionBlank ==
    /\ ~exited
    /\ mainPc = "eof"
    /\ QuestionOf(questionBuilder) = <<>>
    /\ question' = QuestionOf(questionBuilder)
    /\ line' = <<>>
    /\ mainPc' = "prompt"
    /\ UNCHANGED <<procVars, sigVars, pqVars, env, maxRetriesFlag, config, questionBuilder,
                   response, mainErr, lastOutput>>

\* after the inner loop the question is not blank: processQuestion is called
CallProcessQuestion ==
    /\ ~exited
    /\ mainPc = "eof"
    /\ QuestionOf(questionBuilder) # <<>>
    /\ question' = QuestionOf(questionBuilder)
    /\ line' = <<>>
    /\ mainPc' = "processing"
    /\ pqPc' = "loop"
    /\ ZeroFrame
    /\ UNCHANGED <<procVars, sigVars, env, maxRetriesFlag, config, questionBuilder,
                   response, mainErr, lastOutput>>

\* processQuestion returned an error: it is logged, back to the prompt
LogError ==
    /\ ~exited
    /\ mainPc = "returned"
    /\ mainErr # Nil
    /\ lastOutput' = [kind |-> "log", text |-> <<"Error processing question: ">> \o mainErr[1]]
    /\ mainPc' = "prompt"
    /\ response' = <<>>
    /\ mainErr' = Nil
    /\ ZeroFrame
    /\ UNCHANGED <<procVars, sigVars, pqPc, env, maxRetriesFlag, config, questionBuilder,
                   line, question>>

\* processQuestion returned a response: it is printed, back to the prompt
PrintResponse ==
    /\ ~exited
    /\ mainPc = "returned"
    /\ mainErr = Nil
    /\ lastOutput' = [kind |-> "response", text |-> <<"\nResponse:\n">> \o response \o <<"\n">>]
    /\ mainPc' = "prompt"
    /\ response' = <<>>
    /\ mainErr' = Nil
    /\ ZeroFrame
    /\ UNCHANGED <<procVars, sigVars, pqPc, env, maxRetriesFlag, config, questionBuilder,
                   line, question>>

(* --------------------------- processQuestion --------------------------- *)
GeminiRequest == [to |-> "Gemini", prompt |-> EnhancedPrompt(question)]

\* the Groq request with the bare question for its prompt
GroqRequest_RawQuestion == [to |-> "Groq", prompt |-> question]

GroqRequest == [to |-> "Groq", prompt |-> EnhancedPrompt(question)]
JudgeRequest(resp1, resp2) == [to |-> "Judge", prompt |-> ComparisonPrompt(resp1, resp2)]

\* the agreed answer passed through formatResponse
CanonicalAnswer_Formatted(gResp) == FormatResponse(gResp[1].Content)

\* the value of the return statement taken when the judge agrees
CanonicalAnswer(gResp) == gResp[1].Content

\* the loop condition holds: the attempt begins with the call of
\* getGeminiResponse
StartAttempt ==
    /\ ~exited
    /\ pqPc = "loop"
    /\ LoopCond(attempt, config.MaxRetries)
    /\ pqPc' = "gemini"
    /\ inflight' = Some(GeminiRequest)
    /\ hist' = [hist EXCEPT !.gemCalls = @ + 1]
    /\ UNCHANGED <<procVars, sigVars, mainVars, attempt, geminiResp, groqResp, err,
                   lastGeminiErr, lastGroqErr, similar, lastReply>>

\* getGeminiResponse returns an error: recorded, next attempt
GeminiFails ==
    /\ ~exited
    /\ pqPc = "gemini"
    /\ \E reply \in GeminiReplies(AnswerTexts) :
          LET r == GetGeminiResponse(reply) IN
          /\ lastReply' = Some([to |-> "Gemini", body |-> reply])
          /\ ~r.panic
          /\ r.err # Nil
          /\ geminiResp' = r.resp
          /\ err' = r.err
          /\ lastGeminiErr' = r.err
    /\ hist' = [hist EXCEPT !.geminiRespAt = attempt, !.lastGeminiErrAt = attempt]
    /\ attempt' = attempt + 1
    /\ pqPc' = "loop"
    /\ inflight' = Nil
    /\ UNCHANGED <<procVars, sigVars, mainVars, groqResp, lastGroqErr, similar>>

\* getGeminiResponse returns a response: getGroqResponse is called
GeminiAnswers ==
    /\ ~exited
    /\ pqPc = "gemini"
    /\ \E reply \in GeminiReplies(AnswerTexts) :
          LET r == GetGeminiResponse(reply) IN
          /\ lastReply' = Some([to |-> "Gemini", body |-> reply])
          /\ ~r.panic
          /\ r.err = Nil
          /\ geminiResp' = r.resp
          /\ err' = r.err
    /\ hist' = [hist EXCEPT !.geminiRespAt = attempt, !.gemOk = @ + 1, !.groqCalls = @ + 1]
    /\ pqPc' = "groq"
    /\ inflight' = Some(GroqRequest)
    /\ UNCHANGED <<procVars, sigVars, mainVars, attempt, groqResp, lastGeminiErr,
                   lastGroqErr, similar>>

\* getGeminiResponse indexes a response without a first text part: the
\* goroutine panics and the process dies with exit code 2
GeminiPanics ==
    /\ ~exited
    /\ pqPc = "gemini"
    /\ \E reply \in GeminiReplies(AnswerTexts) :
          /\ GetGeminiResponse(reply).panic
          /\ lastReply' = Some([to |-> "Gemini", body |-> reply])
    /\ exited' = TRUE
    /\ exitCode' = 2
    /\ UNCHANGED <<sigVars, mainVars, pqPc, attempt, geminiResp, groqResp, err, lastGeminiErr,
                   lastGroqErr, similar, inflight, hist>>

\* getGroqResponse returns an error and the response of an earlier attempt
\* stays in groqResp
GroqFails_KeepsResponse ==
    /\ ~exited
    /\ pqPc = "groq"
    /\ \E reply \in GroqReplies :
          LET r == GetGroqResponse(reply) IN
          /\ lastReply' = Some([to |-> "Groq", body |-> reply])
          /\ r.err # Nil
          /\ err' = r.err
          /\ lastGroqErr' = r.err
    /\ hist' = [hist EXCEPT !.lastGroqErrAt = attempt]
    /\ attempt' = attempt + 1
    /\ pqPc' = "loop"
    /\ inflight' = Nil
    /\ UNCHANGED <<procVars, sigVars, mainVars, geminiResp, groqResp, lastGeminiErr,
                   similar>>

\* getGroqResponse returns an error and the judge is asked all the same
GroqFails_CallsJudge ==
    /\ ~exited
    /\ pqPc = "groq"
    /\ \E reply \in GroqReplies :
          LET r == GetGroqResponse(reply) IN
          /\ lastReply' = Some([to |-> "Groq", body |-> reply])
          /\ r.err # Nil
          /\ groqResp' = r.resp
          /\ err' = r.err
          /\ lastGroqErr' = r.err
    /\ hist' = [hist EXCEPT !.groqRespAt = attempt, !.lastGroqErrAt = attempt,
                            !.cmpCalls = @ + 1]
    /\ pqPc' = "compare"
    /\ inflight' = Some(JudgeRequest(geminiResp[1].Content, <<>>))
    /\ UNCHANGED <<procVars, sigVars, mainVars, attempt, geminiResp, lastGeminiErr, similar>>

\* getGroqResponse returns an error: recorded, next attempt
GroqFails ==
    /\ ~exited
    /\ pqPc = "groq"
    /\ \E reply \in GroqReplies :
          LET r == GetGroqResponse(reply) IN
          /\ lastReply' = Some([to |-> "Groq", body |-> reply])
          /\ r.err # Nil
          /\ groqResp' = r.resp
          /\ err' = r.err
          /\ lastGroqErr' = r.err
    /\ hist' = [hist EXCEPT !.groqRespAt = attempt, !.lastGroqErrAt = attempt]
    /\ attempt' = attempt + 1
    /\ pqPc' = "loop"
    /\ inflight' = Nil
    /\ UNCHANGED <<procVars, sigVars, mainVars, geminiResp, lastGeminiErr, similar>>

\* getGroqResponse returns a response: compareResponses is called
GroqAnswers ==
    /\ ~exited
    /\ pqPc = "groq"
    /\ \E reply \in GroqReplies :
          LET r == GetGroqResponse(reply) IN
          /\ lastReply' = Some([to |-> "Groq", body |-> reply])
          /\ r.err = Nil
          /\ groqResp' = r.resp
          /\ err' = r.err
          /\ inflight' = Some(JudgeRequest(geminiResp[1].Content, r.resp[1].Content))
    /\ hist' = [hist EXCEPT !.groqRespAt = attempt, !.groqOk = @ + 1, !.bothAt = attempt,
                            !.cmpCalls = @ + 1]
    /\ pqPc' = "compare"
    /\ UNCHANGED <<procVars, sigVars, mainVars, attempt, geminiResp, lastGeminiErr,
                   lastGroqErr, similar>>

\* compareResponses returns an error: logged, next attempt
CompareFailsOn(texts) ==
    /\ ~exited
    /\ pqPc = "compare"
    /\ \E reply \in GeminiReplies(texts) :
          LET r == CompareResponses(reply) IN
          /\ lastReply' = Some([to |-> "Judge", body |-> reply])
          /\ ~r.panic
          /\ r.err # Nil
          /\ similar' = r.similar
          /\ err' = r.err
    /\ attempt' = attempt + 1
    /\ pqPc' = "loop"
    /\ inflight' = Nil
    /\ UNCHANGED <<procVars, sigVars, mainVars, geminiResp, groqResp, lastGeminiErr,
                   lastGroqErr, hist>>

\* compareResponses returns true: processQuestion returns Gemini's content
CompareAgreesOn(texts) ==
    /\ ~exited
    /\ pqPc = "compare"
    /\ \E reply \in GeminiReplies(texts) :
          LET r == CompareResponses(reply) IN
          /\ lastReply' = Some([to |-> "Judge", body |-> reply])
          /\ ~r.panic
          /\ r.err = Nil
          /\ r.similar
          /\ similar' = r.similar
          /\ err' = r.err
    /\ response' = CanonicalAnswer(geminiResp)
    /\ mainErr' = Nil
    /\ hist' = [hist EXCEPT !.agreed = TRUE, !.outcome = "answer"]
    /\ pqPc' = "idle"
    /\ mainPc' = "returned"
    /\ inflight' = Nil
    /\ UNCHANGED <<procVars, sigVars, env, maxRetriesFlag, config, questionBuilder, line,
                   question, lastOutput, attempt, geminiResp, groqResp, lastGeminiErr,
                   lastGroqErr>>

\* compareResponses returns false: logged, next attempt
CompareDiffersOn(texts) ==
    /\ ~exited
    /\ pqPc = "compare"
    /\ \E reply \in GeminiReplies(texts) :
          LET r == CompareResponses(reply) IN
          /\ lastReply' = Some([to |-> "Judge", body |-> reply])
          /\ ~r.panic
          /\ r.err = Nil
          /\ ~r.similar
          /\ similar' = r.similar
          /\ err' = r.err
    /\ attempt' = attempt + 1
    /\ pqPc' = "loop"
    /\ inflight' = Nil
    /\ UNCHANGED <<procVars, sigVars, mainVars, geminiResp, groqResp, lastGeminiErr,
                   lastGroqErr, hist>>

\* compareResponses indexes a response without a first text part: panic
ComparePanicsOn(texts) ==
    /\ ~exited
    /\ pqPc = "compare"
    /\ \E reply \in GeminiReplies(texts) :
          /\ CompareResponses(reply).panic
          /\ lastReply' = Some([to |-> "Judge", body |-> reply])
    /\ exited' = TRUE
    /\ exitCode' = 2
    /\ UNCHANGED <<sigVars, mainVars, pqPc, attempt, geminiResp, groqResp, err, lastGeminiErr,
                   lastGroqErr, similar, inflight, hist>>

\* the loop is over and no response is held: the error return
ExhaustedNoAnswers ==
    /\ ~exited
    /\ pqPc = "loop"
    /\ ~LoopCond(attempt, config.MaxRetries)
    /\ NoResponses(geminiResp, groqResp)
    /\ response' = <<>>
    /\ mainErr' = ExhaustedError(config.MaxRetries, lastGeminiErr, lastGroqErr)
    /\ hist' = [hist EXCEPT !.outcome = "error"]
    /\ pqPc' = "idle"
    /\ mainPc' = "returned"
    /\ UNCHANGED <<procVars, sigVars, env, maxRetriesFlag, config, questionBuilder, line,
                   question, lastOutput, attempt, geminiResp, groqResp, err, lastGeminiErr,
                   lastGroqErr, similar, inflight, lastReply>>

\* the loop is over and a response is held: the dual-response return
ExhaustedWithAnswers ==
    /\ ~exited
    /\ pqPc = "loop"
    /\ ~LoopCond(attempt, config.MaxRetries)
    /\ ~NoResponses(geminiResp, groqResp)
    /\ response' = DualResponse(config.MaxRetries, geminiResp, groqResp)
    /\ mainErr' = Nil
    /\ hist' = [hist EXCEPT !.outcome = "dual"]
    /\ pqPc' = "idle"
    /\ mainPc' = "returned"
    /\ UNCHANGED <<procVars, sigVars, env, maxRetriesFlag, config, questionBuilder, line,
                   question, lastOutput, attempt, geminiResp, groqResp, err, lastGeminiErr,
                   lastGroqErr, similar, inflight, lastReply>>

\* the four ways a judge call ends, on the texts the judge may generate
CompareFails == CompareFailsOn(JudgeTexts)
CompareAgrees == CompareAgreesOn(JudgeTexts)
CompareDiffers == CompareDiffersOn(JudgeTexts)
ComparePanics == ComparePanicsOn(JudgeTexts)

(* ---------------------------- specification ---------------------------- *)
Next ==
    \/ SignalReceived \/ SignalCancel \/ SignalExit
    \/ StartupNoEnv \/ StartupNoKeys \/ Startup
    \/ Prompt \/ ReadExit \/ ReadLine \/ ReadError \/ ReadEOF
    \/ QuestionBlank \/ CallProcessQuestion
    \/ LogError \/ PrintResponse
    \/ StartAttempt \/ GeminiFails \/ GeminiAnswers \/ GeminiPanics
    \/ GroqFails \/ GroqAnswers
    \/ CompareFails \/ CompareAgrees \/ CompareDiffers \/ ComparePanics
    \/ ExhaustedNoAnswers \/ ExhaustedWithAnswers

Spec == Init /\ [][Next]_vars

\* a step of processQuestion: a remote call returns, or a statement between
\* two calls runs
ProcessQuestionStep ==
    \/ StartAttempt \/ GeminiFails \/ GeminiAnswers \/ GeminiPanics
    \/ GroqFails \/ GroqAnswers
    \/ CompareFails \/ CompareAgrees \/ CompareDiffers \/ ComparePanics
    \/ ExhaustedNoAnswers \/ ExhaustedWithAnswers

\* main has called processQuestion with a question, under any budget the
\* flag may hold
ProcessInit ==
    /\ exited = FALSE
    /\ exitCode = 0
    /\ sigPc = "waiting"
    /\ ctxCancelled = FALSE
    /\ mainPc = "processing"
    /\ env = [loaded |-> TRUE, GEMINI_API_KEY |-> "key", GROQ_API_KEY |-> "key"]
    /\ maxRetriesFlag \in Budgets
    /\ config = [GeminiKey |-> "key", GroqKey |-> "key", MaxRetries |-> maxRetriesFlag]
    /\ questionBuilder = <<"h","i","\n">>
    /\ line = <<>>
    /\ question = <<"h","i">>
    /\ response = <<>>
    /\ mainErr = Nil
    /\ lastOutput = [kind |-> "prompt", text |-> <<"\nEnter your question:\n">>]
    /\ pqPc = "loop"
    /\ attempt = 0
    /\ geminiResp = Nil
    /\ groqResp = Nil
    /\ err = Nil
    /\ lastGeminiErr = Nil
    /\ lastGroqErr = Nil
    /\ similar = FALSE
    /\ inflight = Nil
    /\ lastReply = Nil
    /\ hist = ZeroHist

\* one call of processQuestion in which every remote call returns and the
\* goroutine is scheduled
SpecReturns == ProcessInit /\ [][ProcessQuestionStep]_vars /\ WF_vars(ProcessQuestionStep)

(* ------------------- the judge alone, on many texts --------------------- *)
\* longest judge text that is enumerated
MaxJudgeLen == 5

JudgeAlphabet == {"t", "T", "r", "u", "e", " ", "."}

\* every text over the alphabet up to the length bound, and some longer ones
AllJudgeTexts ==
    UNION {[1..n -> JudgeAlphabet] : n \in 0..MaxJudgeLen}
    \cup JudgeTexts
    \cup { <<"\t","T","R","U","E"," ","\r","\n">>,
           <<"y","e","s",","," ","t","r","u","e">>,
           <<"t","r","u","e"," ","t","r","u","e">>,
           <<"t","r"," ","u","e">> }

\* processQuestion inside its first attempt, with both answers in hand and
\* compareResponses called
JudgeInit ==
    /\ exited = FALSE
    /\ exitCode = 0
    /\ sigPc = "waiting"
    /\ ctxCancelled = FALSE
    /\ mainPc = "processing"
    /\ env = [loaded |-> TRUE, GEMINI_API_KEY |-> "key", GROQ_API_KEY |-> "key"]
    /\ maxRetriesFlag = 1
    /\ config = [GeminiKey |-> "key", GroqKey |-> "key", MaxRetries |-> 1]
    /\ questionBuilder = <<"h","i","\n">>
    /\ line = <<>>
    /\ question = <<"h","i">>
    /\ response = <<>>
    /\ mainErr = Nil
    /\ lastOutput = [kind |-> "prompt", text |-> <<"\nEnter your question:\n">>]
    /\ pqPc = "compare"
    /\ attempt = 0
    /\ geminiResp = Some([Source |-> "Gemini", Content |-> TextB])
    /\ groqResp = Some([Source |-> "Groq", Content |-> TextOption])
    /\ err = Nil
    /\ lastGeminiErr = Nil
    /\ lastGroqErr = Nil
    /\ similar = FALSE
    /\ inflight = Some(JudgeRequest(TextB, TextOption))
    /\ lastReply = Nil
    /\ hist = [ZeroHist EXCEPT !.gemCalls = 1, !.groqCalls = 1, !.cmpCalls = 1,
                               !.gemOk = 1, !.groqOk = 1, !.bothAt = 0,
                               !.geminiRespAt = 0, !.groqRespAt = 0]

JudgeNext ==
    \/ CompareFailsOn(AllJudgeTexts)
    \/ CompareAgreesOn(AllJudgeTexts)
    \/ CompareDiffersOn(AllJudgeTexts)
    \/ ComparePanicsOn(AllJudgeTexts)

SpecJudge == JudgeInit /\ [][JudgeNext]_vars

(* ------------------------------ properties ----------------------------- *)
MaxRetries == config.MaxRetries

\* processQuestion has returned to main and main has not yet acted on it
Returned == mainPc = "returned"

\* the remote calls made so far by the current call of processQuestion
Calls(h) == <<h.gemCalls, h.groqCalls, h.cmpCalls>>

\* C1: when Gemini and Groq succeed on attempt k and the judge returns true,
\* processQuestion returns at once with a nil error and Gemini's content of
\* attempt k as it was received, and makes no further remote call, whatever
\* the remaining budget.
C1_AgreementReturnsGeminiContent ==
    /\ [][(pqPc = "compare" /\ similar' /\ err' = Nil) =>
            /\ hist.geminiRespAt = attempt
            /\ hist.bothAt = attempt
            /\ LoopCond(attempt, MaxRetries)
            /\ mainPc' = "returned"
            /\ pqPc' = "idle"
            /\ mainErr' = Nil
            /\ response' = geminiResp[1].Content
            /\ attempt' = attempt
            /\ inflight' = Nil
            /\ Calls(hist') = Calls(hist)
            /\ hist'.agreed]_vars
    /\ [][(hist.agreed /\ mainPc' = "returned") =>
            /\ Calls(hist') = Calls(hist)
            /\ inflight' = Nil
            /\ pqPc' = "idle"]_vars
    /\ [](hist.agreed => Returned /\ pqPc = "idle" /\ inflight = Nil)

\* the judge agreed on the second of three attempts, on an answer that
\* formatResponse would change
C1_Witness ==
    /\ Returned
    /\ hist.agreed
    /\ MaxRetries = 3
    /\ attempt = 1
    /\ response = TextOption
    /\ FormatResponse(TextOption) # TextOption

\* C2: when the judge never returns true, the loop runs exactly maxRetries
\* attempts (one Gemini call each) before the final result, whatever mix of
\* Gemini failures, Groq failures, judge failures and disagreements occurs;
\* stated for a budget that is a count (maxRetries >= 0).
C2_ExactlyMaxRetriesAttempts ==
    /\ (mainPc = "processing") =>
          hist.gemCalls = attempt + (IF pqPc = "loop" THEN 0 ELSE 1)
    /\ (Returned /\ ~hist.agreed /\ MaxRetries >= 0) =>
          /\ attempt = MaxRetries
          /\ hist.gemCalls = MaxRetries

\* three attempts: one lost to Gemini, one to Groq, one to the judge
C2_Witness ==
    /\ Returned
    /\ ~hist.agreed
    /\ MaxRetries = 3
    /\ hist.gemCalls = 3
    /\ hist.groqCalls = 2
    /\ hist.cmpCalls = 1

\* the error text fmt.Errorf builds from the budget and two error values
ErrorTextOf(max, gErr, qErr) ==
    <<"failed to get responses after ">> \o Itoa(max) \o <<" attempts. Gemini error: ">>
    \o ErrText(gErr) \o <<", Groq error: ">> \o ErrText(qErr)

\* the block fmt.Sprintf builds from the budget and the two slots
BlockOf(max, gSlot, qSlot) ==
    <<"Responses after ">> \o Itoa(max) \o <<" attempts:\n\nGemini Response:\n">>
    \o gSlot \o <<"\n\nGroq Response:\n">> \o qSlot

\* Gemini failed in the last attempt that ran, or no attempt ran
GeminiFailedLast == hist.gemOk = 0 \/ (attempt >= 1 /\ hist.lastGeminiErrAt = attempt - 1)

\* Gemini, or Groq, never answered in this call of processQuestion
OneBackendNeverAnswered == hist.gemOk = 0 \/ hist.groqOk = 0

\* C3 as stated: if Gemini fails on every attempt, or Groq fails on every
\* attempt in which it is called, processQuestion returns a non-nil error
\* embedding each backend's last error, an empty result and no response block.
C3_Original ==
    (Returned /\ OneBackendNeverAnswered) =>
        /\ mainErr # Nil
        /\ response = <<>>
        /\ mainErr[1] = ErrorTextOf(MaxRetries, lastGeminiErr, lastGroqErr)

\* C3 amended: if Gemini fails on every attempt, or Groq fails on every
\* attempt in which it is called and Gemini fails on the last attempt, the
\* loop ends with that error and an empty result; if Groq fails whenever it
\* is called but Gemini answers on the last attempt, processQuestion returns
\* a nil error and a block with that Gemini answer and the placeholder in
\* the Groq slot.
C3_ErrorOnlyWithoutGeminiAnswer ==
    (Returned /\ OneBackendNeverAnswered) =>
        IF GeminiFailedLast
        THEN /\ mainErr # Nil
             /\ response = <<>>
             /\ mainErr[1] = ErrorTextOf(MaxRetries, lastGeminiErr, lastGroqErr)
             /\ (hist.gemOk = 0 => lastGroqErr = Nil)
             /\ (attempt >= 1 => lastGeminiErr # Nil)
        ELSE /\ mainErr = Nil
             /\ hist.geminiRespAt = attempt - 1
             /\ hist.lastGroqErrAt = attempt - 1
             /\ response = BlockOf(MaxRetries, FormatResponse(geminiResp[1].Content),
                                   <<"Error getting response">>)

\* Groq failed in both attempts and Gemini answered in both: a block is
\* returned, with no error
C3_Witness ==
    /\ Returned
    /\ MaxRetries = 2
    /\ hist.gemOk = 2
    /\ hist.groqOk = 0
    /\ hist.groqCalls = 2
    /\ mainErr = Nil
    /\ lastGroqErr # Nil

\* C4: when the budget is exhausted and the last attempt produced both
\* answers (the judge said false or failed), processQuestion returns a nil
\* error and the dual-response block showing Gemini's and Groq's answers of
\* that last attempt, each passed through formatResponse.
C4_LastAttemptAnswersShown ==
    (Returned /\ ~hist.agreed /\ MaxRetries >= 1 /\ hist.bothAt = MaxRetries - 1) =>
        /\ mainErr = Nil
        /\ hist.geminiRespAt = MaxRetries - 1
        /\ hist.groqRespAt = MaxRetries - 1
        /\ geminiResp # Nil
        /\ groqResp # Nil
        /\ response = BlockOf(MaxRetries, FormatResponse(geminiResp[1].Content),
                              FormatResponse(groqResp[1].Content))

\* the judge call of the last of two attempts failed, on two different
\* answers
C4_Witness ==
    /\ Returned
    /\ MaxRetries = 2
    /\ hist.bothAt = 1
    /\ lastReply # Nil
    /\ lastReply[1].to = "Judge"
    /\ lastReply[1].body.genErr # Nil
    /\ geminiResp = Some([Source |-> "Gemini", Content |-> TextOption])
    /\ groqResp = Some([Source |-> "Groq", Content |-> TextB])

\* C5 as stated: in an exhausted state every answer and every error of the
\* final output or error was produced in the last attempt, maxRetries - 1.
C5_OnlyLastAttemptData ==
    (Returned /\ ~hist.agreed /\ MaxRetries >= 1) =>
        /\ (hist.outcome = "dual" /\ geminiResp # Nil) => hist.geminiRespAt = MaxRetries - 1
        /\ (hist.outcome = "dual" /\ groqResp # Nil) => hist.groqRespAt = MaxRetries - 1
        /\ (hist.outcome = "error" /\ lastGeminiErr # Nil) =>
              hist.lastGeminiErrAt = MaxRetries - 1
        /\ (hist.outcome = "error" /\ lastGroqErr # Nil) =>
              hist.lastGroqErrAt = MaxRetries - 1

\* C6: a final result has been emitted only if an attempt produced two
\* answers the judge found equivalent, or the attempt counter has reached
\* the configured maximum.
C6_ResultOnlyOnAgreementOrExhaustion ==
    (hist.outcome # "none") =>
        \/ /\ hist.agreed
           /\ hist.bothAt = attempt
           /\ hist.outcome = "answer"
        \/ /\ ~hist.agreed
           /\ attempt >= MaxRetries
           /\ (MaxRetries >= 0 => attempt = MaxRetries)
           /\ hist.outcome \in {"dual", "error"}

\* a result emitted by exhaustion of a budget of three
C6_Witness ==
    /\ hist.outcome = "dual"
    /\ ~hist.agreed
    /\ attempt = 3
    /\ MaxRetries = 3

(* --------------------------- the judge's rule --------------------------- *)
WhiteSpace == {" ", "\t", "\n", "\r"}

\* t is the word "true" in any letter case, with nothing but white space
\* before and after it
IsTrueLiteral(t) ==
    \E i \in 1..(Len(t) - 3) :
        /\ \A k \in 1..(i - 1) : t[k] \in WhiteSpace
        /\ t[i] \in {"t", "T"}
        /\ t[i + 1] \in {"r", "R"}
        /\ t[i + 2] \in {"u", "U"}
        /\ t[i + 3] \in {"e", "E"}
        /\ \A k \in (i + 4)..Len(t) : t[k] \in WhiteSpace

\* the judge call has returned and its generation call produced a text
JudgeProducedText ==
    /\ lastReply # Nil
    /\ lastReply[1].to = "Judge"
    /\ lastReply[1].body.newClientErr = Nil
    /\ lastReply[1].body.genErr = Nil
    /\ HasFirstText(lastReply[1].body)

\* C7: when the judge's generation call succeeds, compareResponses returns
\* true exactly when the text, trimmed of surrounding white space and
\* lowercased, is "true"; for every other text it returns false, and in both
\* cases a nil error.
C7_JudgeLiteralRule ==
    JudgeProducedText =>
        /\ err = Nil
        /\ ~(exited /\ exitCode = 2)
        /\ similar <=> IsTrueLiteral(FirstText(lastReply[1].body))
        /\ similar <=> hist.agreed

\* the judge answered "true" in capitals inside white space, and it counted
C7_Witness ==
    /\ JudgeProducedText
    /\ FirstText(lastReply[1].body) = <<"\t","T","R","U","E"," ","\r","\n">>
    /\ similar
    /\ Returned

(* ------------------------------ the session ---------------------------- *)
\* the Gemini call of the current attempt came back without an error and
\* without a first text part
GeminiGaveNoContent ==
    /\ lastReply # Nil
    /\ lastReply[1].to = "Gemini"
    /\ lastReply[1].body.newClientErr = Nil
    /\ lastReply[1].body.genErr = Nil
    /\ ~HasFirstText(lastReply[1].body)

\* C8 as stated: a Gemini reply without error and without usable content
\* comes back from getGeminiResponse as an error, is recorded as one failed
\* attempt, and does not end the process.
C8_NoContentIsAFailedAttempt ==
    GeminiGaveNoContent =>
        /\ ~(exited /\ exitCode # 0)
        /\ geminiResp = Nil
        /\ err # Nil
        /\ lastGeminiErr = err
        /\ hist.lastGeminiErrAt = attempt - 1

\* main acts on what processQuestion returned by going back to the prompt
OutcomeThenPrompt ==
    [][(Returned /\ mainPc' # "returned") =>
          /\ mainPc' = "prompt"
          /\ ~exited'
          /\ lastOutput'.kind = (IF mainErr = Nil THEN "response" ELSE "log")]_vars

\* once the loop has started the process ends only by the exit command or
\* by the interrupt listener, with exit code 0
OnlyExitOrInterrupt ==
    (exited /\ mainPc # "start") =>
        /\ exitCode = 0
        /\ (mainPc = "done" \/ sigPc = "exited")

\* C9 as stated: whatever processQuestion returns, main prints or logs it
\* and prompts again; only the exit command or an interrupt ends the session.
C9_SessionEndsOnlyOnExitOrInterrupt == OutcomeThenPrompt /\ []OnlyExitOrInterrupt

\* l is the word "exit" in any letter case, with nothing but white space
\* before and after it, and ends with the line delimiter
IsExitLine(l) ==
    /\ Len(l) > 0
    /\ l[Len(l)] = "\n"
    /\ \E i \in 1..(Len(l) - 3) :
          /\ \A k \in 1..(i - 1) : l[k] \in WhiteSpace
          /\ l[i] \in {"e", "E"}
          /\ l[i + 1] \in {"x", "X"}
          /\ l[i + 2] \in {"i", "I"}
          /\ l[i + 3] \in {"t", "T"}
          /\ \A k \in (i + 4)..Len(l) : l[k] \in WhiteSpace

AllWhite(s) == \A i \in 1..Len(s) : s[i] \in WhiteSpace

\* C11: when end-of-input is reached and what the turn accumulated is empty
\* or white space only, main goes back to the prompt: processQuestion is not
\* called, no remote request is made and nothing is printed.
C11_BlankInputIsDiscarded ==
    /\ [][(mainPc = "eof" /\ mainPc' # "eof" /\ AllWhite(questionBuilder)) =>
            /\ mainPc' = "prompt"
            /\ ~exited'
            /\ pqPc' = "idle"
            /\ inflight' = Nil
            /\ hist' = ZeroHist
            /\ lastOutput' = lastOutput
            /\ response' = <<>>
            /\ mainErr' = Nil]_vars
    /\ [](mainPc = "eof" => pqPc = "idle" /\ inflight = Nil /\ hist = ZeroHist)

\* two white-space lines were typed and discarded: back at the prompt, with
\* the prompt still the last thing written
C11_Witness ==
    /\ mainPc = "prompt"
    /\ questionBuilder = <<" ","\n"," ","\n">>
    /\ question = <<>>
    /\ lastOutput.kind = "prompt"
    /\ hist = ZeroHist

(* ------------------------------ the interrupt -------------------------- *)
\* the listener has taken the signal off sigChan
SignalTaken == sigPc # "waiting"

\* the listener goes through cancel() and then os.Exit(0), whatever main is
\* doing: neither step waits for main or for a request in flight
ListenerNeverWaits ==
    /\ (sigPc = "received" /\ ~exited) => ENABLED SignalCancel
    /\ (sigPc = "cancelled" /\ ~exited) => ENABLED SignalExit
    /\ (sigPc = "exited") => (ctxCancelled /\ exited /\ exitCode = 0)

\* C12 as stated: from any state of the interactive loop (waiting for input,
\* accumulating lines, or inside a Gemini, Groq or judge call), an interrupt
\* leads to the context being cancelled and then to the process ending with
\* exit code 0, without waiting for the turn or the call in flight.
C12_InterruptExitsWithCodeZero ==
    /\ ListenerNeverWaits
    /\ (SignalTaken /\ exited /\ mainPc # "start") => (ctxCancelled /\ exitCode = 0)

\* a remote request begins in this step
CallBegins == inflight' # Nil /\ inflight' # inflight

\* a turn begins in this step: the prompt is written
TurnBegins == mainPc = "prompt" /\ mainPc' = "reading"

\* the listener has run cancel() and the process has not yet ended
CancelledByListener == sigPc = "cancelled" /\ ctxCancelled /\ ~exited

\* C13 as stated: once the listener has cancelled the context, main starts
\* no new turn and no new attempt: no Gemini, Groq or judge request begins
\* between cancel() and the end of the process, in any interleaving.
C13_NothingStartsAfterCancel ==
    [][CancelledByListener => (~CallBegins /\ ~TurnBegins)]_vars

(* ------------------------- the order of the calls ---------------------- *)
\* the request that is in flight at each position of processQuestion
InFlightMatchesPosition ==
    /\ (pqPc \in {"idle", "loop"}) => inflight = Nil
    /\ (pqPc = "gemini") => (inflight # Nil /\ inflight[1].to = "Gemini")
    /\ (pqPc = "groq") => (inflight # Nil /\ inflight[1].to = "Groq")
    /\ (pqPc = "compare") => (inflight # Nil /\ inflight[1].to = "Judge")

EnteredText == questionBuilder \o line

\* s without the white space at its two ends
Trimmed(s) ==
    IF AllWhite(s) THEN <<>>
    ELSE LET first == CHOOSE i \in 1..Len(s) :
                          s[i] \notin WhiteSpace /\ \A k \in 1..(i - 1) : s[k] \in WhiteSpace
             last == CHOOSE j \in 1..Len(s) :
                          s[j] \notin WhiteSpace /\ \A k \in (j + 1)..Len(s) : s[k] \in WhiteSpace
         IN SubSeq(s, first, last)

\* C15 as stated: the question handed to processQuestion is the trimmed
\* concatenation of all the text entered between the prompt and end-of-input,
\* whether or not the last line before end-of-input ends with a newline.
C15_QuestionIsAllEnteredText ==
    [][(mainPc = "eof" /\ mainPc' = "processing") =>
          question' = Trimmed(EnteredText)]_vars

\* a request to Gemini or Groq for an answer is in flight
AnswerRequested == inflight # Nil /\ inflight[1].to \in {"Gemini", "Groq"}

\* p is the instruction template followed by q and nothing else
IsTemplateThen(p, q) ==
    /\ Len(p) = Len(q) + 1
    /\ p[1] = PromptTemplate
    /\ \A i \in 1..Len(q) : p[i + 1] = q[i]

\* C16: retries are identical requests: every Gemini and every Groq request
\* of a call of processQuestion carries the instruction template followed by
\* the question as main handed it over, and no step of processQuestion
\* changes the question.
C16_RetriesAreIdenticalRequests ==
    /\ [](AnswerRequested =>
            /\ IsTemplateThen(inflight[1].prompt, question)
            /\ question = Trimmed(questionBuilder))
    /\ [][(mainPc = "processing") => question' = question]_vars
    /\ [][(mainPc = "processing" /\ AnswerRequested /\ inflight' # Nil
              /\ inflight'[1].to \in {"Gemini", "Groq"}) =>
            inflight'[1].prompt = inflight[1].prompt]_vars

\* the Groq request of the third attempt, after an attempt lost to Gemini
\* and one that went as far as the judge
C16_Witness ==
    /\ pqPc = "groq"
    /\ attempt = 2
    /\ Calls(hist) = <<3, 2, 1>>
    /\ hist.lastGeminiErrAt \in {0, 1}
    /\ questionBuilder = <<"h","i","\n"," ","\n">>
    /\ question = <<"h","i">>
    /\ inflight = Some([to |-> "Groq", prompt |-> <<PromptTemplate, "h", "i">>])

(* --------------------------- the pairing of answers -------------------- *)
\* processQuestion has returned the block, with an answer in each slot
BothAnswersShown ==
    /\ Returned
    /\ hist.outcome = "dual"
    /\ geminiResp # Nil
    /\ groqResp # Nil

\* C17: when the block returned by processQuestion shows an answer of Gemini
\* and an answer of Groq (no placeholder), both were produced in one attempt,
\* the last one, maxRetries - 1.
C17_ShownAnswersAreOfTheLastAttempt ==
    BothAnswersShown =>
        /\ MaxRetries >= 1
        /\ hist.geminiRespAt = MaxRetries - 1
        /\ hist.groqRespAt = MaxRetries - 1
        /\ hist.bothAt = MaxRetries - 1
        /\ mainErr = Nil
        /\ response = BlockOf(MaxRetries, FormatResponse(geminiResp[1].Content),
                              FormatResponse(groqResp[1].Content))

\* both backends answered in each of three attempts and the judge never
\* agreed: the block shows the two answers of the third attempt
C17_Witness ==
    /\ BothAnswersShown
    /\ MaxRetries = 3
    /\ Calls(hist) = <<3, 3, 3>>
    /\ hist.bothAt = 2
    /\ geminiResp[1].Content # groqResp[1].Content

(* ------------------------------ termination ---------------------------- *)
\* the number of attempts a budget allows
CallBudget == IF MaxRetries > 0 THEN MaxRetries ELSE 0

\* C18: processQuestion terminates for every integer maxRetries when each
\* remote call returns; it makes at most maxRetries Gemini calls, Groq calls
\* and judge calls; for maxRetries <= 0 it makes no remote call and returns
\* a non-nil error in which both embedded errors are nil.
C18_TerminatesWithinBudget ==
    /\ [](/\ hist.gemCalls <= CallBudget
          /\ hist.groqCalls <= CallBudget
          /\ hist.cmpCalls <= CallBudget
          /\ (mainPc = "processing") => (attempt >= 0 /\ attempt <= CallBudget))
    /\ []((Returned /\ MaxRetries <= 0) =>
            /\ Calls(hist) = <<0, 0, 0>>
            /\ lastReply = Nil
            /\ response = <<>>
            /\ mainErr # Nil
            /\ lastGeminiErr = Nil
            /\ lastGroqErr = Nil
            /\ mainErr[1] = ErrorTextOf(MaxRetries, Nil, Nil))
    /\ (mainPc = "processing") ~> (mainPc # "processing" \/ exited)

\* a budget of -1: processQuestion returned the error without a call
C18_Witness ==
    /\ Returned
    /\ MaxRetries = 0 - 1
    /\ Calls(hist) = <<0, 0, 0>>
    /\ mainErr = Some(<<"failed to get responses after ", "-", "1",
                        " attempts. Gemini error: ", "<nil>", ", Groq error: ", "<nil>">>)

====
